---------------------------- MODULE Spec2Model ----------------------------
(***************************************************************************)
(* Model of the pension projection core of blanklog/pensionCalculation:    *)
(*   generateInitialData  (src/utils/calculation.ts:5-40)                  *)
(*   calculatePension     (src/utils/calculation.ts:42-99)                 *)
(*                                                                         *)
(* JavaScript numbers are modelled as exact rationals [n, d] in lowest     *)
(* terms with d > 0 (Math.round and toFixed are modelled by what they do   *)
(* on the exact value; binary floating-point representation error is not   *)
(* modelled).  Fields that the code always produces through Math.round     *)
(* (socialAverageWage, userWage of a generated record) are integers.       *)
(***************************************************************************)
EXTENDS Integers, Sequences, FiniteSets, TLC

VARIABLES settings, data, result, pc,
          activeYearIndex, aiLoading, aiAnalysis, skipDataResetRef,
          customWagesPresent, requests, alertMessage

vars == <<settings, data, result, pc,
          activeYearIndex, aiLoading, aiAnalysis, skipDataResetRef,
          customWagesPresent, requests, alertMessage>>

\* the state of App besides settings, data and result:
\*   activeYearIndex     useState<number | null>, an index counting from 0
\*   aiLoading           useState(false)
\*   aiAnalysis          useState<string | null>: the report, here the call
\*                       that produced it
\*   skipDataResetRef    useRef(false)
\*   customWagesPresent  settings.customWages is an object (not undefined)
\*   requests            the analyzePensionPlan calls that have not settled
\*   alertMessage        the argument of the last alert() call
appVars == <<activeYearIndex, aiLoading, aiAnalysis, skipDataResetRef,
             customWagesPresent, requests, alertMessage>>

\* a value that may be null is a sequence: empty for null, <<v>> for the
\* value v
Null == <<>>

Some(v) == <<v>>

ValueOf(option) == option[1]

----------------------------------------------------------------------------
(* Bounds of the explored input space                                      *)

\* longest contribution span (retirementAge - startAge) explored
MaxSpan == 3
\* largest number of entries of settings.customWages explored
MaxCustom == 2
\* longest caller-supplied series handed to calculatePension
MaxLen == 2
\* largest number of analyzePensionPlan calls in flight at once
MaxRequests == 1

----------------------------------------------------------------------------
(* Exact rational arithmetic standing for JavaScript number arithmetic     *)

Abs(x) == IF x < 0 THEN -x ELSE x

RECURSIVE GCD(_, _)
GCD(a, b) == IF b = 0 THEN a ELSE GCD(b, a % b)

\* the rational n/d (d > 0) in lowest terms
Rat(n, d) ==
    LET g == GCD(Abs(n), d)
    IN  [n |-> n \div g, d |-> d \div g]

FromInt(i) == [n |-> i, d |-> 1]

Zero == FromInt(0)

One == FromInt(1)

\* a + b, over the least common denominator
RatAdd(a, b) ==
    LET g == GCD(a.d, b.d)
    IN  Rat(a.n * (b.d \div g) + b.n * (a.d \div g), (a.d \div g) * b.d)

RatMul(a, b) == Rat(a.n * b.n, a.d * b.d)

\* a / k for an integer k > 0
RatDivInt(a, k) == Rat(a.n, a.d * k)

\* Math.round: the nearest integer, a tie going towards +infinity
MathRound(a) == (2 * a.n + a.d) \div (2 * a.d)

\* parseFloat(x.toFixed(4)): x rounded to 4 decimal places
ToFixed4(a) == Rat(MathRound(RatMul(a, FromInt(10000))), 10000)


----------------------------------------------------------------------------
(* Program constants                                                       *)

\* DEFAULT_SETTINGS.startYear
DefaultStartYear == 2024

\* DEFAULT_SETTINGS.initialSocialWage is 8000 and socialWageGrowthRate 4.0;
\* the explored wages are small so that the exact products stay small.

\* PENSION_MONTHS_DIVISOR: retirement age -> months of annuity
PENSION_MONTHS_DIVISOR == (50 :> 195) @@ (55 :> 170) @@ (60 :> 139) @@ (65 :> 101)

DEFAULT_DIVISOR == 139

----------------------------------------------------------------------------
(* generateInitialData                                                     *)

\* const retirementYear = startYear + (retirementAge - startAge)
RetirementYear(s) == s.startYear + (s.retirementAge - s.startAge)

\* if (settings.startAge >= settings.retirementAge) return []
SpanInvalid(s) == s.startAge >= s.retirementAge

\* mutant: the override is tested by truthiness, so that an entry 0 is no entry
HasCustomWageTruthy(s, year) ==
    year \in DOMAIN s.customWages /\ s.customWages[year].n # 0

\* settings.customWages && settings.customWages[year] !== undefined
\* (customWages is a function from the years that have an entry; a missing
\*  customWages object is the function with the empty domain)
HasCustomWage(s, year) == year \in DOMAIN s.customWages

\* let wageForYear = currentSocialWage; if (custom entry) wageForYear = entry
WageForYear(s, year, currentSocialWage) ==
    IF HasCustomWage(s, year) THEN s.customWages[year] ELSE currentSocialWage

\* mutant: userWage is truncated instead of rounded
MakeRecordFloor(year, wageForYear) ==
    [year              |-> year,
     socialAverageWage |-> MathRound(wageForYear),
     userWage          |-> wageForYear.n \div wageForYear.d,
     ratio             |-> One]

\* data.push({year, socialAverageWage: Math.round(w), userWage: Math.round(w * 1.0), ratio: 1.0})
MakeRecord(year, wageForYear) ==
    [year              |-> year,
     socialAverageWage |-> MathRound(wageForYear),
     userWage          |-> MathRound(RatMul(wageForYear, One)),
     ratio             |-> One]

\* mutant: growth is applied to the rounded (emitted) wage
NextSocialWageRounded(s, wageForYear) ==
    RatMul(FromInt(MathRound(wageForYear)),
           RatAdd(One, RatDivInt(s.socialWageGrowthRate, 100)))

\* currentSocialWage = wageForYear * (1 + settings.socialWageGrowthRate / 100)
NextSocialWage(s, wageForYear) ==
    RatMul(wageForYear, RatAdd(One, RatDivInt(s.socialWageGrowthRate, 100)))

\* mutant: the running projection ignores the override that was in effect
RECURSIVE GenLoopIgnoreOverride(_, _, _, _, _)
GenLoopIgnoreOverride(s, year, retirementYear, currentSocialWage, acc) ==
    IF year < retirementYear
    THEN LET wageForYear == WageForYear(s, year, currentSocialWage)
         IN  GenLoopIgnoreOverride(s, year + 1, retirementYear,
                     NextSocialWage(s, currentSocialWage),
                     Append(acc, MakeRecord(year, wageForYear)))
    ELSE acc

\* mutant: the loop also emits the retirement year
RECURSIVE GenLoopInclusive(_, _, _, _, _)
GenLoopInclusive(s, year, retirementYear, currentSocialWage, acc) ==
    IF year <= retirementYear
    THEN LET wageForYear == WageForYear(s, year, currentSocialWage)
         IN  GenLoopInclusive(s, year + 1, retirementYear,
                     NextSocialWage(s, wageForYear),
                     Append(acc, MakeRecord(year, wageForYear)))
    ELSE acc

\* for (let year = startYear; year < retirementYear; year++) { ... }
RECURSIVE GenLoop(_, _, _, _, _)
GenLoop(s, year, retirementYear, currentSocialWage, acc) ==
    IF year < retirementYear
    THEN LET wageForYear == WageForYear(s, year, currentSocialWage)
         IN  GenLoop(s, year + 1, retirementYear,
                     NextSocialWage(s, wageForYear),
                     Append(acc, MakeRecord(year, wageForYear)))
    ELSE acc

\* mutant: no span validation and an inclusive loop bound
generateInitialDataUnguarded(s) ==
    GenLoopInclusive(s, s.startYear, RetirementYear(s), s.initialSocialWage, <<>>)

generateInitialData(s) ==
    IF SpanInvalid(s)
    THEN <<>>
    ELSE GenLoop(s, s.startYear, RetirementYear(s), s.initialSocialWage, <<>>)

----------------------------------------------------------------------------
(* generateInitialData on wages of realistic size                          *)
(*                                                                         *)
(* 8000 * 1.04^34 has 68 decimals and a numerator beyond the integers of   *)
(* the model checker, so the running wage is also modelled as an exact     *)
(* decimal: base-100 digits, least significant first, the lowest `scale`   *)
(* of them after the decimal point.  This form covers settings whose wage, *)
(* overrides and growth rate (in percent) are whole numbers.               *)

RECURSIVE IntLimbs(_)
IntLimbs(n) == IF n < 100 THEN <<n>> ELSE <<n % 100>> \o IntLimbs(n \div 100)

RECURSIVE LimbsValue(_)
LimbsValue(limbs) ==
    IF limbs = <<>> THEN 0 ELSE Head(limbs) + 100 * LimbsValue(Tail(limbs))

\* limbs * m + carry
RECURSIVE MulLimbs(_, _, _)
MulLimbs(limbs, m, carry) ==
    IF limbs = <<>>
    THEN IF carry = 0 THEN <<>> ELSE IntLimbs(carry)
    ELSE LET p == Head(limbs) * m + carry
         IN  <<p % 100>> \o MulLimbs(Tail(limbs), m, p \div 100)

DecFromInt(n) == [limbs |-> IntLimbs(n), scale |-> 0]

\* Math.round of a non-negative exact decimal
DecRound(x) ==
    LET whole == LimbsValue(SubSeq(x.limbs, x.scale + 1, Len(x.limbs)))
        tenths == IF x.scale > 0 /\ x.scale <= Len(x.limbs)
                  THEN x.limbs[x.scale]
                  ELSE 0
    IN  IF tenths >= 50 THEN whole + 1 ELSE whole

\* x * (1 + rate / 100) = x * (100 + rate) / 100
DecGrow(x, rate) ==
    [limbs |-> MulLimbs(x.limbs, 100 + rate, 0), scale |-> x.scale + 1]

\* let wageForYear = currentSocialWage; if (custom entry) wageForYear = entry
DecWageForYear(s, year, currentSocialWage) ==
    IF HasCustomWage(s, year)
    THEN DecFromInt(s.customWages[year].n)
    ELSE currentSocialWage

\* data.push({year, socialAverageWage: Math.round(w), userWage: Math.round(w * 1.0), ratio: 1.0})
DecMakeRecord(year, wageForYear) ==
    [year              |-> year,
     socialAverageWage |-> DecRound(wageForYear),
     userWage          |-> DecRound(wageForYear),
     ratio             |-> One]

\* mutant: growth is applied to the rounded (emitted) wage
DecNextSocialWageRounded(s, wageForYear) ==
    DecGrow(DecFromInt(DecRound(wageForYear)), s.socialWageGrowthRate.n)

\* currentSocialWage = wageForYear * (1 + settings.socialWageGrowthRate / 100)
DecNextSocialWage(s, wageForYear) == DecGrow(wageForYear, s.socialWageGrowthRate.n)

\* for (let year = startYear; year < retirementYear; year++) { ... }
RECURSIVE DecGenLoop(_, _, _, _, _)
DecGenLoop(s, year, retirementYear, currentSocialWage, acc) ==
    IF year < retirementYear
    THEN LET wageForYear == DecWageForYear(s, year, currentSocialWage)
             record      == DecMakeRecord(year, wageForYear)
             nextWage    == DecNextSocialWage(s, wageForYear)
         IN  \* the test only makes the checker compute this year's values
             \* before it enters the next iteration; it is always true
             IF record.year = year /\ nextWage.scale > 0
             THEN DecGenLoop(s, year + 1, retirementYear, nextWage,
                             Append(acc, record))
             ELSE acc
    ELSE acc

generateInitialDataDec(s) ==
    IF SpanInvalid(s)
    THEN <<>>
    ELSE DecGenLoop(s, s.startYear, RetirementYear(s),
                    DecFromInt(s.initialSocialWage.n), <<>>)

----------------------------------------------------------------------------
(* calculatePension                                                        *)

\* the literal returned for an empty series
EmptyResult ==
    [monthlyBasicPension         |-> 0,
     monthlyPersonalPension      |-> 0,
     totalMonthly                |-> 0,
     totalAccumulated            |-> 0,
     averageIndex                |-> Zero,
     basicPensionReplacementRate |-> Zero,
     periodContribution          |-> 0,
     monthsDivisor               |-> 139,
     contributionYears           |-> 0]

\* mutant: a payment gap counts as a contribution year
IsEffectiveIncludingGaps(d) == d.userWage >= 0

\* data.filter(d => d.userWage > 0)
IsEffective(d) == d.userWage > 0

EffectiveData(series) == SelectSeq(series, IsEffective)

\* mutant: the final reference wage is that of the last contribution year
FinalSocialWageOfLastEffective(series) ==
    LET eff == SelectSeq(series, LAMBDA d : d.userWage > 0)
    IN  IF eff = <<>> THEN 0 ELSE eff[Len(eff)].socialAverageWage

\* const lastYearData = data[data.length - 1];
\* const finalSocialWage = lastYearData.socialAverageWage
FinalSocialWage(series) == series[Len(series)].socialAverageWage

\* mutant: the index is recomputed from the wages instead of read from ratio
RECURSIVE TotalRatioFromWages(_)
TotalRatioFromWages(eff) ==
    IF eff = <<>>
    THEN Zero
    ELSE LET item == eff[Len(eff)]
             sum  == TotalRatioFromWages(SubSeq(eff, 1, Len(eff) - 1))
         IN  IF item.socialAverageWage > 0
             THEN RatAdd(sum, Rat(item.userWage, item.socialAverageWage))
             ELSE sum

\* reduce((sum, item) => sum + item.ratio, sum) from the i-th item on
\* (the test on the new sum is always true: it makes the checker compute the
\*  sum of this step before it enters the next one)
RECURSIVE ReduceRatio(_, _, _)
ReduceRatio(eff, i, sum) ==
    IF i > Len(eff)
    THEN sum
    ELSE LET next == RatAdd(sum, eff[i].ratio)
         IN  IF next.d > 0 THEN ReduceRatio(eff, i + 1, next) ELSE next

\* effectiveData.reduce((sum, item) => sum + item.ratio, 0)
TotalRatio(eff) == ReduceRatio(eff, 1, Zero)

\* mutant: with no effective year the index falls back to the baseline 1.0
AverageIndexDefaultOne(totalRatio, yearsWorked) ==
    IF yearsWorked > 0 THEN RatDivInt(totalRatio, yearsWorked) ELSE One

\* const averageIndex = yearsWorked > 0 ? totalRatio / yearsWorked : 0
AverageIndex(totalRatio, yearsWorked) ==
    IF yearsWorked > 0 THEN RatDivInt(totalRatio, yearsWorked) ELSE Zero

\* ((finalSocialWage + finalSocialWage * averageIndex) / 2) * yearsWorked * 0.01
BasicPension(finalSocialWage, averageIndex, yearsWorked) ==
    RatMul(RatMul(RatDivInt(RatAdd(FromInt(finalSocialWage),
                                   RatMul(FromInt(finalSocialWage), averageIndex)),
                            2),
                  FromInt(yearsWorked)),
           Rat(1, 100))

\* mutant: the deposit of one month instead of twelve
RECURSIVE PeriodContributionMonthly(_)
PeriodContributionMonthly(series) ==
    IF series = <<>>
    THEN Zero
    ELSE RatAdd(PeriodContributionMonthly(SubSeq(series, 1, Len(series) - 1)),
                RatMul(FromInt(series[Len(series)].userWage), Rat(8, 100)))

\* reduce((sum, item) => sum + (item.userWage * 0.08 * 12), sum) from the
\* i-th item on (the test on the new sum is always true, as in ReduceRatio)
RECURSIVE ReduceContribution(_, _, _)
ReduceContribution(series, i, sum) ==
    IF i > Len(series)
    THEN sum
    ELSE LET next == RatAdd(sum, RatMul(RatMul(FromInt(series[i].userWage),
                                               Rat(8, 100)),
                                        FromInt(12)))
         IN  IF next.d > 0 THEN ReduceContribution(series, i + 1, next) ELSE next

\* data.reduce((sum, item) => sum + (item.userWage * 0.08 * 12), 0)
PeriodContribution(series) == ReduceContribution(series, 1, Zero)

\* mutant: the pre-existing balance is left out of the account total
TotalAccumulatedNoBalance(s, periodContribution) == periodContribution

\* const totalAccumulated = settings.accountBalance + periodContribution
TotalAccumulated(s, periodContribution) == RatAdd(s.accountBalance, periodContribution)

\* mutant: an age between two keys takes the divisor of the key below it
DivisorOfKeyBelow(s) ==
    LET below == {k \in DOMAIN PENSION_MONTHS_DIVISOR : k <= s.retirementAge}
    IN  IF below = {}
        THEN DEFAULT_DIVISOR
        ELSE PENSION_MONTHS_DIVISOR[CHOOSE k \in below : \A j \in below : j <= k]

\* PENSION_MONTHS_DIVISOR[settings.retirementAge] || DEFAULT_DIVISOR
Divisor(s) ==
    LET looked == IF s.retirementAge \in DOMAIN PENSION_MONTHS_DIVISOR
                  THEN PENSION_MONTHS_DIVISOR[s.retirementAge]
                  ELSE 0
    IN  IF looked # 0 THEN looked ELSE DEFAULT_DIVISOR

\* mutant: the balance is always spread over the default number of months
PersonalPensionDefaultDivisor(totalAccumulated, divisor) ==
    RatDivInt(totalAccumulated, DEFAULT_DIVISOR)

\* const monthlyPersonalPension = totalAccumulated / divisor
PersonalPension(totalAccumulated, divisor) == RatDivInt(totalAccumulated, divisor)

\* mutant: the rate is taken from the rounded pension
ReplacementRateOfRounded(finalSocialWage, monthlyBasicPension) ==
    IF finalSocialWage > 0
    THEN Rat(MathRound(monthlyBasicPension), finalSocialWage)
    ELSE Zero

\* finalSocialWage > 0 ? monthlyBasicPension / finalSocialWage : 0
ReplacementRate(finalSocialWage, monthlyBasicPension) ==
    IF finalSocialWage > 0
    THEN RatDivInt(monthlyBasicPension, finalSocialWage)
    ELSE Zero

\* mutant: the total is the sum of the two rounded pensions
TotalMonthlyOfParts(monthlyBasicPension, monthlyPersonalPension) ==
    MathRound(monthlyBasicPension) + MathRound(monthlyPersonalPension)

\* Math.round(monthlyBasicPension + monthlyPersonalPension)
TotalMonthly(monthlyBasicPension, monthlyPersonalPension) ==
    MathRound(RatAdd(monthlyBasicPension, monthlyPersonalPension))

\* the body of calculatePension after the empty-series guard
CalculateNonEmpty(series, s) ==
    LET effectiveData          == EffectiveData(series)
        yearsWorked            == Len(effectiveData)
        finalSocialWage        == FinalSocialWage(series)
        totalRatio             == TotalRatio(effectiveData)
        averageIndex           == AverageIndex(totalRatio, yearsWorked)
        monthlyBasicPension    == BasicPension(finalSocialWage, averageIndex, yearsWorked)
        periodContribution     == PeriodContribution(series)
        totalAccumulated       == TotalAccumulated(s, periodContribution)
        divisor                == Divisor(s)
        monthlyPersonalPension == PersonalPension(totalAccumulated, divisor)
    IN  [monthlyBasicPension         |-> MathRound(monthlyBasicPension),
         monthlyPersonalPension      |-> MathRound(monthlyPersonalPension),
         totalMonthly                |-> TotalMonthly(monthlyBasicPension,
                                                         monthlyPersonalPension),
         totalAccumulated            |-> MathRound(totalAccumulated),
         averageIndex                |-> ToFixed4(averageIndex),
         basicPensionReplacementRate |-> ReplacementRate(finalSocialWage,
                                                         monthlyBasicPension),
         periodContribution          |-> MathRound(periodContribution),
         monthsDivisor               |-> divisor,
         contributionYears           |-> yearsWorked]

\* mutant: the empty-series result carries the balance and the looked-up divisor
calculatePensionEmptyCarries(series, s) ==
    IF Len(series) = 0
    THEN [EmptyResult EXCEPT !.totalAccumulated = MathRound(s.accountBalance),
                             !.monthsDivisor = Divisor(s)]
    ELSE CalculateNonEmpty(series, s)

calculatePension(series, s) ==
    IF Len(series) = 0
    THEN EmptyResult
    ELSE CalculateNonEmpty(series, s)

----------------------------------------------------------------------------
(* The explored inputs                                                     *)

\* retirement age of the generated series (DEFAULT_SETTINGS.retirementAge);
\* generateInitialData reads the ages only through their difference
GenRetirementAges == {60}

\* retirement ages handed to calculatePension: the table's keys and others
CalcRetirementAges == {50, 55, 60, 65, 57, 0}

InitialWages == {FromInt(3), FromInt(10)}

GrowthRates == {Zero, FromInt(4), FromInt(50)}

AccountBalances == {Zero, FromInt(7), Rat(5, 2)}

\* balances of the settings a series is generated from (not read by
\* generateInitialData)
GenAccountBalances == {Zero, FromInt(7)}

\* override values: zero, a fraction that rounds up, an integer
CustomWageValues == {Zero, Rat(5, 2), FromInt(9)}

\* years that may carry an override: the span and one year on either side
CustomWageYears == (DefaultStartYear - 1) .. (DefaultStartYear + MaxSpan)

CustomWagesSpace ==
    UNION {[D -> CustomWageValues] :
             D \in {Y \in SUBSET CustomWageYears : Cardinality(Y) <= MaxCustom}}

GenSettingsSpace ==
    {[startYear            |-> DefaultStartYear,
      startAge             |-> ra - span,
      retirementAge        |-> ra,
      initialSocialWage    |-> w,
      socialWageGrowthRate |-> g,
      accountBalance       |-> b,
      customWages          |-> cw] :
        ra \in GenRetirementAges, span \in (-1) .. MaxSpan, w \in InitialWages,
        g \in GrowthRates, b \in GenAccountBalances, cw \in CustomWagesSpace}

\* DEFAULT_SETTINGS shape with the two fields calculatePension reads set
CalcSettings(ra, b) ==
    [startYear            |-> DefaultStartYear,
     startAge             |-> 25,
     retirementAge        |-> ra,
     initialSocialWage    |-> FromInt(10),
     socialWageGrowthRate |-> FromInt(4),
     accountBalance       |-> b,
     customWages          |-> <<>>]

\* every retirement age with a positive balance, every balance with age 50
CalcSettingsSpace ==
    {CalcSettings(ra, FromInt(7)) : ra \in CalcRetirementAges}
        \cup {CalcSettings(50, b) : b \in AccountBalances}

\* records a caller may hand over: gaps, zero reference wages, and ratio
\* fields that do or do not agree with userWage / socialAverageWage
RecordSpace(year) ==
    {[year              |-> year,
      socialAverageWage |-> saw,
      userWage          |-> uw,
      ratio             |-> r] :
        saw \in {0, 1000}, uw \in {0, 6, 1000}, r \in {Zero, One, Rat(7, 3)}}

\* series of up to MaxLen records, their years ascending from the start year
SeriesSpace ==
    UNION {{[i \in 1 .. n |-> [f[i] EXCEPT !.year = DefaultStartYear + i - 1]] :
              f \in [1 .. n -> RecordSpace(DefaultStartYear)]} : n \in 0 .. MaxLen}

\* const [result, setResult] = useState({... all 0, monthsDivisor: 139 ...})
InitialResult ==
    [monthlyBasicPension         |-> 0,
     monthlyPersonalPension      |-> 0,
     totalMonthly                |-> 0,
     totalAccumulated            |-> 0,
     averageIndex                |-> Zero,
     basicPensionReplacementRate |-> Zero,
     periodContribution          |-> 0,
     monthsDivisor               |-> 139,
     contributionYears           |-> 0]

----------------------------------------------------------------------------
(* State machine: the two functions applied to the explored inputs         *)

\* settings chosen, no series yet (useState<PensionDataPoint[]>([]))
\* the useState / useRef initial values of App
AppInitial ==
    /\ activeYearIndex = Null
    /\ aiLoading = FALSE
    /\ aiAnalysis = Null
    /\ skipDataResetRef = FALSE
    /\ customWagesPresent = TRUE
    /\ requests = <<>>
    /\ alertMessage = Null

InitSettings ==
    /\ AppInitial
    /\ settings \in GenSettingsSpace
    /\ data = <<>>
    /\ result = InitialResult
    /\ pc = "settings"

\* a series supplied by the caller together with its settings
InitSeries ==
    /\ AppInitial
    /\ settings \in CalcSettingsSpace
    /\ data \in SeriesSpace
    /\ result = InitialResult
    /\ pc = "series"

Init == InitSettings \/ InitSeries

\* const newData = generateInitialData(settings); setData(newData)
Generate ==
    /\ pc = "settings"
    /\ data' = generateInitialData(settings)
    /\ pc' = "generated"
    /\ UNCHANGED <<settings, result>>
    /\ UNCHANGED appVars

\* const calc = calculatePension(data, settings); setResult(calc)
Calculate ==
    /\ pc \in {"settings", "generated", "series"}
    /\ result' = calculatePension(data, settings)
    /\ pc' = "calculated"
    /\ UNCHANGED <<settings, data>>
    /\ UNCHANGED appVars

Next == Generate \/ Calculate

Spec == Init /\ [][Next]_vars

----------------------------------------------------------------------------
(* The default scenario and its neighbours, on wages of realistic size     *)

\* DEFAULT_SETTINGS
DefaultSettings ==
    [startYear            |-> 2024,
     startAge             |-> 25,
     retirementAge        |-> 60,
     initialSocialWage    |-> FromInt(8000),
     socialWageGrowthRate |-> FromInt(4),
     accountBalance       |-> Zero,
     customWages          |-> <<>>]

\* start ages that leave the minimum tenure of 15 years before 60
ScenarioStartAges == 25 .. 45

ScenarioBalances == {Zero, FromInt(50000)}

ScenarioCustomWages == {<<>>, 2030 :> FromInt(9000)}

ScenarioSettingsSpace ==
    {[DefaultSettings EXCEPT !.startAge = a, !.accountBalance = b, !.customWages = cw] :
        a \in ScenarioStartAges, b \in ScenarioBalances, cw \in ScenarioCustomWages}

InitScenario ==
    /\ AppInitial
    /\ settings \in ScenarioSettingsSpace
    /\ data = <<>>
    /\ result = InitialResult
    /\ pc = "settings"

\* const newData = generateInitialData(settings); setData(newData)
GenerateDec ==
    /\ pc = "settings"
    /\ data' = generateInitialDataDec(settings)
    /\ pc' = "generated"
    /\ UNCHANGED <<settings, result>>
    /\ UNCHANGED appVars

NextScenario == GenerateDec \/ Calculate

SpecScenario == InitScenario /\ [][NextScenario]_vars

----------------------------------------------------------------------------
(* Vocabulary of the properties (stated independently of the operators     *)
(* above)                                                                  *)

Generated == pc = "generated"

Calculated == pc = "calculated"

CalculatedNonEmpty == pc = "calculated" /\ data # <<>>

\* the calendar year of the i-th record of the span (i = 1 for startYear)
YearOf(i) == settings.startYear + i - 1

\* the years of the span [startYear, retirementYear)
SpanYears ==
    {y \in CustomWageYears :
        /\ settings.startYear <= y
        /\ y < settings.startYear + (settings.retirementAge - settings.startAge)}

Overridden(y) == y \in DOMAIN settings.customWages

GrowthFactor == RatAdd(One, RatDivInt(settings.socialWageGrowthRate, 100))

RECURSIVE RatPow(_, _)
RatPow(a, k) == IF k = 0 THEN One ELSE RatMul(a, RatPow(a, k - 1))

\* the wage in effect in the i-th year, in closed form: the override of that
\* year, or else the latest earlier override (the initial wage when there is
\* none) grown once per year since
WageInEffect(i) ==
    IF Overridden(YearOf(i))
    THEN settings.customWages[YearOf(i)]
    ELSE LET earlier == {j \in 1 .. (i - 1) : Overridden(YearOf(j))}
         IN  IF earlier = {}
             THEN RatMul(settings.initialSocialWage, RatPow(GrowthFactor, i - 1))
             ELSE LET j == CHOOSE k \in earlier : \A m \in earlier : m <= k
                  IN  RatMul(settings.customWages[YearOf(j)],
                             RatPow(GrowthFactor, i - j))

\* indices of the records that are not payment gaps
NonGap(series) == {i \in DOMAIN series : series[i].userWage > 0}

RECURSIVE SumUserWage(_, _)
SumUserWage(series, S) ==
    IF S = {}
    THEN 0
    ELSE LET i == CHOOSE k \in S : TRUE
         IN  series[i].userWage + SumUserWage(series, S \ {i})

RECURSIVE SumRatio(_, _)
SumRatio(series, S) ==
    IF S = {}
    THEN Zero
    ELSE LET i == CHOOSE k \in S : TRUE
         IN  RatAdd(series[i].ratio, SumRatio(series, S \ {i}))

\* sum over all records of userWage * 0.08 * 12, unrounded
ContributionSum(series) == Rat(96 * SumUserWage(series, DOMAIN series), 100)

\* k is x rounded to the nearest integer, a tie going up:  k <= x + 1/2 < k + 1
IsNearestInt(k, x) ==
    /\ 2 * x.d * k <= 2 * x.n + x.d
    /\ 2 * x.n + x.d < 2 * x.d * (k + 1)

\* r is x rounded to 4 decimal places
IsRoundedTo4(r, x) ==
    /\ 10000 % r.d = 0
    /\ IsNearestInt(r.n * (10000 \div r.d), RatMul(x, FromInt(10000)))

----------------------------------------------------------------------------
(* Properties                                                              *)

\* C1: for integer ages with retirementAge > startAge, generateInitialData
\* returns exactly retirementAge - startAge records whose years are
\* startYear, startYear + 1, ... in that order.
C1_ContiguousYears ==
    (Generated /\ settings.retirementAge > settings.startAge)
        => /\ Len(data) = settings.retirementAge - settings.startAge
           /\ \A i \in 1 .. Len(data) : data[i].year = settings.startYear + i - 1

C1_Witness ==
    /\ Generated
    /\ settings.retirementAge - settings.startAge >= 2
    /\ Len(data) >= 2
    /\ data[Len(data)].year = settings.startYear + Len(data) - 1

\* C2: whenever startAge >= retirementAge, whatever the other settings
\* (customWages entries included), generateInitialData returns the empty
\* sequence.
C2_EmptyOnInvalidSpan ==
    (Generated /\ settings.startAge >= settings.retirementAge) => data = <<>>

C2_Witness ==
    /\ Generated
    /\ settings.startAge = settings.retirementAge
    /\ settings.startYear \in DOMAIN settings.customWages
    /\ data = <<>>

\* C3: every generated record has userWage equal to its socialAverageWage
\* and ratio equal to 1.0, with or without overrides, at any growth rate.
C3_BaselineFullContribution ==
    Generated
        => \A i \in 1 .. Len(data) :
              /\ data[i].userWage = data[i].socialAverageWage
              /\ data[i].ratio = [n |-> 1, d |-> 1]

C3_Witness ==
    /\ Generated
    /\ \E i \in 1 .. Len(data) :
          /\ Overridden(data[i].year)
          /\ settings.customWages[data[i].year].d # 1
          /\ data[i].userWage = data[i].socialAverageWage
    /\ \E i \in 1 .. Len(data) : ~Overridden(data[i].year)

\* C4: a generated record's socialAverageWage is the year's customWages entry
\* rounded to the nearest integer when the year has an entry (an entry 0
\* included), and the rounded running projection otherwise; entries for
\* years outside [startYear, retirementYear) do not affect the output.
C4_OverrideOrProjection ==
    Generated
        => /\ \A i \in 1 .. Len(data) :
                 IsNearestInt(data[i].socialAverageWage, WageInEffect(i))
           /\ data = generateInitialData(
                        [settings EXCEPT !.customWages =
                            [y \in (DOMAIN settings.customWages) \cap SpanYears
                                |-> settings.customWages[y]]])

C4_Witness ==
    /\ Generated
    /\ Len(data) >= 2
    /\ \E y \in SpanYears :
          /\ Overridden(y)
          /\ settings.customWages[y] = Zero
          /\ settings.initialSocialWage # Zero
    /\ \E y \in DOMAIN settings.customWages : y \notin SpanYears

\* C5: when year N has an override w and year N+1 (inside the span) has
\* none, the record of year N+1 has socialAverageWage =
\* round(w * (1 + socialWageGrowthRate/100)), whatever initialSocialWage and
\* the un-overridden projection for year N are.
C5_OverridePropagates ==
    Generated
        => \A i \in 1 .. (Len(data) - 1) :
              (Overridden(data[i].year) /\ ~Overridden(data[i + 1].year))
                  => IsNearestInt(data[i + 1].socialAverageWage,
                                  RatMul(settings.customWages[data[i].year],
                                         GrowthFactor))

C5_Witness ==
    /\ Generated
    /\ settings.socialWageGrowthRate # Zero
    /\ \E i \in 2 .. (Len(data) - 1) :
          /\ Overridden(data[i].year)
          /\ ~Overridden(data[i + 1].year)
          /\ ~Overridden(data[i - 1].year)
          /\ data[i + 1].socialAverageWage
                # MathRound(RatMul(settings.initialSocialWage, RatPow(GrowthFactor, i)))

\* C6: with no customWages entries, the k-th record (k = 0 for startYear) has
\* socialAverageWage = round(initialSocialWage * (1 + rate/100)^k): growth
\* compounds on the unrounded running value.
C6_CompoundGrowth ==
    (Generated /\ DOMAIN settings.customWages = {})
        => \A k \in 0 .. (Len(data) - 1) :
              IsNearestInt(data[k + 1].socialAverageWage,
                           RatMul(settings.initialSocialWage,
                                  RatPow(GrowthFactor, k)))

C6_Witness ==
    /\ Generated
    /\ DOMAIN settings.customWages = {}
    /\ Len(data) >= 3
    /\ RatMul(settings.initialSocialWage, GrowthFactor).d # 1
    /\ data[3].socialAverageWage
          # MathRound(RatMul(FromInt(data[2].socialAverageWage), GrowthFactor))

\* C7: on an empty series calculatePension returns, for any settings (a
\* retirementAge of the divisor table and a positive accountBalance
\* included), every monetary field, averageIndex, basicPensionReplacementRate
\* and contributionYears equal to 0, and monthsDivisor equal to 139.
C7_EmptySeriesZeroed ==
    (Calculated /\ data = <<>>)
        => /\ result.monthlyBasicPension = 0
           /\ result.monthlyPersonalPension = 0
           /\ result.totalMonthly = 0
           /\ result.totalAccumulated = 0
           /\ result.periodContribution = 0
           /\ result.averageIndex.n = 0
           /\ result.basicPensionReplacementRate.n = 0
           /\ result.contributionYears = 0
           /\ result.monthsDivisor = 139

C7_Witness ==
    /\ Calculated
    /\ data = <<>>
    /\ settings.retirementAge = 50
    /\ settings.accountBalance.n > 0

\* C8 as stated: for every call of calculatePension, totalAccumulated is
\* accountBalance plus the sum over all records of userWage * 0.08 * 12,
\* rounded to the nearest integer, and for an integer accountBalance the
\* returned fields satisfy totalAccumulated = accountBalance + periodContribution.
C8_Original ==
    Calculated
        => /\ IsNearestInt(result.totalAccumulated,
                           RatAdd(settings.accountBalance, ContributionSum(data)))
           /\ settings.accountBalance.d = 1
                 => result.totalAccumulated
                        = settings.accountBalance.n + result.periodContribution

\* C8 (amended): for every call of calculatePension on a non-empty series,
\* totalAccumulated is accountBalance plus the sum over all records of
\* userWage * 0.08 * 12, rounded to the nearest integer, with no interest
\* applied, and for an integer accountBalance the returned fields satisfy
\* totalAccumulated = accountBalance + periodContribution.
C8_BalanceCarriedForward ==
    CalculatedNonEmpty
        => /\ IsNearestInt(result.totalAccumulated,
                           RatAdd(settings.accountBalance, ContributionSum(data)))
           /\ settings.accountBalance.d = 1
                 => result.totalAccumulated
                        = settings.accountBalance.n + result.periodContribution

C8_Witness ==
    /\ CalculatedNonEmpty
    /\ settings.accountBalance.n > 0
    /\ settings.accountBalance.d = 1
    /\ ContributionSum(data).d # 1
    /\ result.totalAccumulated = settings.accountBalance.n + result.periodContribution

\* C9: for a non-empty series, contributionYears is the number of records
\* with userWage > 0; a record with userWage = 0 enters neither
\* contributionYears nor the numerator or denominator of averageIndex
\* (whatever its ratio holds), and is still folded, as 0, into
\* periodContribution.
C9_GapYearExclusion ==
    CalculatedNonEmpty
        => LET kept        == NonGap(data)
               withoutGaps == SelectSeq(data, LAMBDA d : d.userWage # 0)
           IN  /\ result.contributionYears = Cardinality(kept)
               /\ result.averageIndex
                     = calculatePension(withoutGaps, settings).averageIndex
               /\ \A i \in (DOMAIN data) \ kept :
                     \A r \in {Zero, One, Rat(7, 3)} :
                        calculatePension([data EXCEPT ![i].ratio = r],
                                         settings).averageIndex
                            = result.averageIndex
               /\ IsNearestInt(result.periodContribution, ContributionSum(data))

C9_Witness ==
    /\ CalculatedNonEmpty
    /\ \E i \in DOMAIN data : data[i].userWage = 0 /\ data[i].ratio.n # 0
    /\ \E i \in DOMAIN data : data[i].userWage > 0 /\ data[i].ratio.n # 0
    /\ result.contributionYears = Len(data) - 1

----------------------------------------------------------------------------
(* Vocabulary of the pension formula properties                            *)

\* the reference wage of the year before retirement
LastWage(series) == series[Len(series)].socialAverageWage

\* the unrounded mean of ratio over the records that are not gaps, 0 if none
MeanRatio(series) ==
    LET kept == NonGap(series)
    IN  IF kept = {}
        THEN Zero
        ELSE RatDivInt(SumRatio(series, kept), Cardinality(kept))

\* ((F + F * A) / 2) * Y * 0.01  =  F * Y * (1 + A) / 200
StatutoryBasicPension(series) ==
    RatMul(Rat(LastWage(series) * Cardinality(NonGap(series)), 200),
           RatAdd(One, MeanRatio(series)))

\* the annuity months of the statutory table, 139 for any other age
TableDivisor(age) ==
    CASE age = 50 -> 195
      [] age = 55 -> 170
      [] age = 60 -> 139
      [] age = 65 -> 101
      [] OTHER    -> 139

\* the series with every reference wage and ratio replaced
WithWageAndRatio(series, w, r) ==
    [i \in DOMAIN series |->
        [series[i] EXCEPT !.socialAverageWage = w, !.ratio = r]]

----------------------------------------------------------------------------
(* Properties of the pension formula                                       *)

\* C11: for a non-empty series, monthlyBasicPension =
\* round(((F + F * A) / 2) * Y * 0.01), F the socialAverageWage of the last
\* record (also when that record is a gap year), A the unrounded average
\* index over the non-gap records, Y contributionYears.
C11_BasicPensionFormula ==
    CalculatedNonEmpty
        => IsNearestInt(result.monthlyBasicPension, StatutoryBasicPension(data))

C11_Witness ==
    /\ CalculatedNonEmpty
    /\ data[Len(data)].userWage = 0
    /\ data[Len(data)].socialAverageWage > 0
    /\ \E i \in NonGap(data) : data[i].socialAverageWage # LastWage(data)
    /\ StatutoryBasicPension(data).d # 1
    /\ result.monthlyBasicPension > 0

\* C12: for a non-empty series, periodContribution =
\* round(sum over ALL records of userWage * 0.08 * 12); it leaves out
\* accountBalance and does not depend on socialAverageWage, ratio or
\* retirementAge.
C12_PeriodContribution ==
    CalculatedNonEmpty
        => /\ IsNearestInt(result.periodContribution, ContributionSum(data))
           /\ \A b \in AccountBalances : \A ra \in {50, 72} :
                 calculatePension(data, [settings EXCEPT !.accountBalance = b,
                                                         !.retirementAge = ra]
                                 ).periodContribution
                     = result.periodContribution
           /\ \A w \in {0, 1000} : \A r \in {Zero, Rat(7, 3)} :
                 calculatePension(WithWageAndRatio(data, w, r),
                                  settings).periodContribution
                     = result.periodContribution

C12_Witness ==
    /\ CalculatedNonEmpty
    /\ settings.accountBalance.n > 0
    /\ \E i \in DOMAIN data : data[i].userWage = 0
    /\ ContributionSum(data).d # 1
    /\ result.periodContribution > 0
    /\ result.totalAccumulated # result.periodContribution

\* C13: for a non-empty series, monthsDivisor is 195, 170, 139 or 101 when
\* retirementAge is exactly 50, 55, 60 or 65, and 139 for every other
\* retirementAge (72, 57, 0): exact match or default, no interpolation.
C13_DivisorLookup ==
    CalculatedNonEmpty
        => result.monthsDivisor = TableDivisor(settings.retirementAge)

C13_Witness ==
    /\ CalculatedNonEmpty
    /\ settings.retirementAge = 57
    /\ result.monthsDivisor = 139

\* C14: for a non-empty series, monthlyPersonalPension =
\* round((accountBalance + unrounded period contribution) / monthsDivisor),
\* with the divisor selected for retirementAge; the divisor is strictly
\* positive for every input.
C14_PersonalPension ==
    CalculatedNonEmpty
        => /\ result.monthsDivisor > 0
           /\ IsNearestInt(result.monthlyPersonalPension,
                           RatDivInt(RatAdd(settings.accountBalance,
                                            ContributionSum(data)),
                                     TableDivisor(settings.retirementAge)))

C14_Witness ==
    /\ CalculatedNonEmpty
    /\ settings.retirementAge = 50
    /\ settings.accountBalance.n > 0
    /\ result.monthlyPersonalPension > 0
    /\ result.monthlyPersonalPension * 195 # result.totalAccumulated
    /\ ~IsNearestInt(result.monthlyPersonalPension,
                     RatDivInt(RatAdd(settings.accountBalance, ContributionSum(data)),
                               139))

\* C15: for a non-empty series, basicPensionReplacementRate is the basic
\* pension before output rounding divided by the last record's
\* socialAverageWage when that wage is > 0, and exactly 0 when it is <= 0.
C15_ReplacementRateGuard ==
    CalculatedNonEmpty
        => IF LastWage(data) > 0
           THEN result.basicPensionReplacementRate
                    = RatDivInt(StatutoryBasicPension(data), LastWage(data))
           ELSE result.basicPensionReplacementRate = [n |-> 0, d |-> 1]

C15_Witness ==
    /\ CalculatedNonEmpty
    /\ LastWage(data) = 0
    /\ NonGap(data) # {}
    /\ \E i \in DOMAIN data : data[i].socialAverageWage > 0
    /\ result.basicPensionReplacementRate.n = 0

\* C16: for a non-empty series whose records all have userWage = 0,
\* calculatePension returns contributionYears = 0, averageIndex = 0,
\* monthlyBasicPension = 0, basicPensionReplacementRate = 0 and
\* periodContribution = 0.
C16_AllGapsDegradeToZero ==
    (CalculatedNonEmpty /\ \A i \in DOMAIN data : data[i].userWage = 0)
        => /\ result.contributionYears = 0
           /\ result.averageIndex = [n |-> 0, d |-> 1]
           /\ result.monthlyBasicPension = 0
           /\ result.basicPensionReplacementRate = [n |-> 0, d |-> 1]
           /\ result.periodContribution = 0

C16_Witness ==
    /\ CalculatedNonEmpty
    /\ Len(data) >= 2
    /\ \A i \in DOMAIN data : data[i].userWage = 0
    /\ \E i \in DOMAIN data : data[i].ratio.n # 0
    /\ LastWage(data) > 0
    /\ result.contributionYears = 0

----------------------------------------------------------------------------
(* The end-to-end scenario                                                 *)

\* the digits of w * 104^k, i.e. of w * 1.04^k with 2k decimals
RECURSIVE CompoundLimbs(_, _)
CompoundLimbs(limbs, k) ==
    IF k = 0
    THEN limbs
    ELSE LET next == MulLimbs(limbs, 104, 0)
         IN  IF Len(next) > 0 THEN CompoundLimbs(next, k - 1) ELSE next

\* round(8000 * 1.04^34)
ScenarioFinalWage ==
    DecRound([limbs |-> CompoundLimbs(IntLimbs(8000), 34), scale |-> 34])

\* C17 (generateInitialData and calculatePension return the same output for
\* the same input, whatever was called before) is not stated: both are
\* operators of their arguments here, so two evaluations agree in any model.

\* C18: for the default settings (2024, 25, 60, 8000, 4.0, 0, {}),
\* generateInitialData yields 35 records for 2024..2058 and calculatePension
\* on that series yields contributionYears = 35, averageIndex = 1.0,
\* monthsDivisor = 139 and monthlyBasicPension = round(finalWage * 0.35),
\* finalWage = round(8000 * 1.04^34).
C18_EndToEnd ==
    (pc \in {"generated", "calculated"} /\ settings = DefaultSettings /\ data # <<>>)
        => /\ Len(data) = 35
           /\ \A i \in 1 .. Len(data) :
                 /\ data[i].year = 2023 + i
                 /\ data[i].ratio = [n |-> 1, d |-> 1]
           /\ data[Len(data)].socialAverageWage = ScenarioFinalWage
           /\ pc = "calculated"
                 => /\ result.contributionYears = 35
                    /\ result.averageIndex = [n |-> 1, d |-> 1]
                    /\ result.monthsDivisor = 139
                    /\ IsNearestInt(result.monthlyBasicPension,
                                    Rat(ScenarioFinalWage * 35, 100))

C18_Witness ==
    /\ pc = "calculated"
    /\ settings = DefaultSettings
    /\ Len(data) = 35
    /\ data[1].socialAverageWage = 8000
    /\ data[2].socialAverageWage = 8320
    /\ data[35].year = 2058
    /\ result.monthlyBasicPension > 10000

----------------------------------------------------------------------------
(* The year editor: handleDataUpdate and the controls that call it         *)

\* export const MIN_RATIO = 0.6
MIN_RATIO == Rat(6, 10)

\* export const MAX_RATIO = 3.0
MAX_RATIO == FromInt(3)

\* a <= b
RatLE(a, b) == a.n * b.d <= b.n * a.d

\* the function handleDataUpdate passes to setData (index counts from 1)
handleDataUpdate(prevData, index, field, value) ==
    LET item == prevData[index]
        updated ==
            CASE field = "ratio" ->
                     [item EXCEPT
                         !.ratio = value,
                         !.userWage = MathRound(RatMul(FromInt(item.socialAverageWage),
                                                       value))]
              [] field = "userWage" ->
                     [item EXCEPT
                         !.userWage = value,
                         !.ratio = IF item.socialAverageWage > 0
                                   THEN Rat(value, item.socialAverageWage)
                                   ELSE Zero]
              [] field = "socialAverageWage" ->
                     [item EXCEPT
                         !.socialAverageWage = value,
                         !.ratio = IF value > 0 THEN Rat(item.userWage, value) ELSE Zero]
    IN  [prevData EXCEPT ![index] = updated]

\* the settings the edited baseline is generated from: two years ahead of
\* retirement, wages 53 and 55
EditorSettings ==
    [DefaultSettings EXCEPT !.startAge = 58, !.initialSocialWage = FromInt(53)]

\* positions of the range input: min 0.6, max 3.0, step 0.1
SliderValues == {Rat(k, 10) : k \in {6, 10, 17, 30}}

\* values typed into the userWage input
UserWageInputs == {1, 30, 200}

\* values typed into the socialAverageWage input
SocialWageInputs == {0, 50}

\* after the first render and its effects: the baseline and its result
InitEditor ==
    /\ settings = EditorSettings
    /\ data = generateInitialData(settings)
    /\ result = calculatePension(data, settings)
    /\ pc = "idle"
    /\ activeYearIndex = Some(Len(data) \div 2)
    /\ aiLoading = FALSE
    /\ aiAnalysis = Null
    /\ skipDataResetRef = FALSE
    /\ customWagesPresent = TRUE
    /\ requests = <<>>
    /\ alertMessage = Null

\* selectedData = selectedYearIndex !== null ? data[selectedYearIndex] : null:
\* the record the panel edits, as an index counting from 1; the controls are
\* rendered when it exists (events are handled once the effects have run)
Selectable ==
    IF pc = "idle" /\ activeYearIndex # Null
                   /\ ValueOf(activeYearIndex) + 1 \in DOMAIN data
    THEN {ValueOf(activeYearIndex) + 1}
    ELSE {}

\* what handleDataUpdate leaves alone
editFrame == <<settings, result, activeYearIndex, aiLoading, skipDataResetRef,
               customWagesPresent, requests, alertMessage>>

\* a click on a node of the chart: onYearSelect(index), i.e. setActiveYearIndex
SelectYear ==
    /\ pc = "idle"
    /\ \E index \in 0 .. Len(data) - 1 :
           /\ Some(index) # activeYearIndex
           /\ activeYearIndex' = Some(index)
    /\ UNCHANGED <<settings, data, result, pc, aiLoading, aiAnalysis,
                   skipDataResetRef, customWagesPresent, requests, alertMessage>>

\* <input type="range" ... onChange: onDataUpdate(selectedYearIndex, 'ratio', value)
RatioSlider ==
    \E i \in Selectable, v \in SliderValues :
        /\ data' = handleDataUpdate(data, i, "ratio", v)
        /\ aiAnalysis' = Null
        /\ pc' = "edited"
        /\ UNCHANGED editFrame

\* quick button: onDataUpdate(selectedYearIndex, 'ratio', 0.6)
QuickMinRatio ==
    \E i \in Selectable :
        /\ data' = handleDataUpdate(data, i, "ratio", Rat(6, 10))
        /\ aiAnalysis' = Null
        /\ pc' = "edited"
        /\ UNCHANGED editFrame

\* quick button: onDataUpdate(selectedYearIndex, 'ratio', 3.0)
QuickMaxRatio ==
    \E i \in Selectable :
        /\ data' = handleDataUpdate(data, i, "ratio", FromInt(3))
        /\ aiAnalysis' = Null
        /\ pc' = "edited"
        /\ UNCHANGED editFrame

\* quick button: onDataUpdate(selectedYearIndex, 'userWage', 0)
QuickGap ==
    \E i \in Selectable :
        /\ data' = handleDataUpdate(data, i, "userWage", 0)
        /\ aiAnalysis' = Null
        /\ pc' = "edited"
        /\ UNCHANGED editFrame

\* number input: onDataUpdate(selectedYearIndex, 'userWage', Number(e.target.value))
UserWageInput ==
    \E i \in Selectable, v \in UserWageInputs :
        /\ data' = handleDataUpdate(data, i, "userWage", v)
        /\ aiAnalysis' = Null
        /\ pc' = "edited"
        /\ UNCHANGED editFrame

\* number input: onDataUpdate(selectedYearIndex, 'socialAverageWage', Number(e.target.value))
SocialWageInput ==
    \E i \in Selectable, v \in SocialWageInputs :
        /\ data' = handleDataUpdate(data, i, "socialAverageWage", v)
        /\ aiAnalysis' = Null
        /\ pc' = "edited"
        /\ UNCHANGED editFrame

\* the effect on [data, ...]: setResult(calculatePension(data, settings))
RecalculateEffect ==
    /\ pc = "edited"
    /\ result' = calculatePension(data, settings)
    /\ pc' = "idle"
    /\ UNCHANGED <<settings, data>>
    /\ UNCHANGED appVars

NextEditor ==
    \/ RatioSlider
    \/ QuickMinRatio
    \/ QuickMaxRatio
    \/ QuickGap
    \/ UserWageInput
    \/ SocialWageInput
    \/ SelectYear
    \/ RecalculateEffect

SpecEditor == InitEditor /\ [][NextEditor]_vars

\* the editor is showing an edited or unedited series
Editing == pc \in {"idle", "edited"}

\* C19: starting from a generated baseline, after any sequence of
\* handleDataUpdate calls every record with socialAverageWage > 0 has
\* ratio = userWage / socialAverageWage exactly.
C19_RatioIsWageQuotient ==
    Editing =>
        \A i \in DOMAIN data :
            data[i].socialAverageWage > 0
                => data[i].ratio = Rat(data[i].userWage, data[i].socialAverageWage)

\* C20: after any sequence of updates through the editor's controls, every
\* record that is not a gap year (userWage > 0) has its ratio in [0.6, 3.0].
C20_RatioWithinPolicyBounds ==
    Editing =>
        \A i \in DOMAIN data :
            data[i].userWage > 0
                => RatLE(MIN_RATIO, data[i].ratio) /\ RatLE(data[i].ratio, MAX_RATIO)

----------------------------------------------------------------------------
(* The App component: settings commits, project import and the effects     *)
(*                                                                         *)
(* pc names the effects that are pending after the last render:            *)
(*   "idle"                      none                                      *)
(*   "edited"                    the recalculation effect                  *)
(*   "regenerate"                the regeneration effect                   *)
(*   "regenerateAndRecalculate"  both (as after the first render)          *)
(* Handlers run when no effect is pending.  When both effects are pending  *)
(* the regeneration effect runs first; the recalculation that React runs   *)
(* on the data of the same render is overwritten by the one that follows   *)
(* setData, and the two are one RecalculateEffect step here.               *)

\* values committed from the settings inputs of the panel
StartAgeInputs == {25, 26}

RetirementAgeInputs == {60, 55, 30}

AccountBalanceInputs == {Zero, FromInt(50000)}

\* the primitive dependencies of the regeneration effect
StructuralDeps(s) ==
    <<s.startYear, s.retirementAge, s.startAge, s.initialSocialWage,
      s.socialWageGrowthRate>>

\* the settings named in the dependency list of the regeneration effect
RegenerationDeps ==
    {"startYear", "retirementAge", "startAge", "initialSocialWage",
     "socialWageGrowthRate", "customWages"}

\* mutant: the recalculation effect depends on the series alone
RecalculationDepsDataOnly == {}

\* the settings named in the dependency list of the recalculation effect
\* (next to data)
RecalculationDeps == {"accountBalance", "retirementAge"}

\* mutant: every setting is a dependency of the regeneration effect
EffectsAfterCommitRegenerating(key) == "regenerateAndRecalculate"

\* the effects pending after the render that follows setSettings of one key
EffectsAfterCommit(key) ==
    IF key \in RegenerationDeps
    THEN IF key \in RecalculationDeps THEN "regenerateAndRecalculate" ELSE "regenerate"
    ELSE IF key \in RecalculationDeps THEN "edited" ELSE "idle"

\* after the first render: the useState values, every effect pending
InitApp ==
    /\ AppInitial
    /\ settings = DefaultSettings
    /\ data = <<>>
    /\ result = InitialResult
    /\ pc = "regenerateAndRecalculate"

\* useEffect(() => { if (skipDataResetRef.current) {...; return}
\*                   setData(generateInitialData(settings)); ... }, [structural settings])
RegenerationEffect ==
    /\ pc \in {"regenerate", "regenerateAndRecalculate"}
    /\ IF skipDataResetRef
       THEN /\ skipDataResetRef' = FALSE
            /\ pc' = IF pc = "regenerateAndRecalculate" THEN "edited" ELSE "idle"
            /\ UNCHANGED <<data, activeYearIndex, aiAnalysis>>
       ELSE LET newData == generateInitialDataDec(settings)
            IN  /\ data' = newData
                /\ activeYearIndex' =
                       IF activeYearIndex = Null
                          \/ ValueOf(activeYearIndex) >= Len(newData)
                       THEN Some(Len(newData) \div 2)
                       ELSE activeYearIndex
                /\ aiAnalysis' = Null
                /\ pc' = "edited"
                /\ UNCHANGED skipDataResetRef
    /\ UNCHANGED <<settings, result, aiLoading, customWagesPresent, requests,
                   alertMessage>>

\* what handleSettingChange leaves alone
settingFrame == <<data, result, activeYearIndex, aiLoading, aiAnalysis,
                  skipDataResetRef, customWagesPresent, requests, alertMessage>>

\* onBlur of the startAge input: commitSettingChange('startAge'), which calls
\* handleSettingChange when the value differs from the committed one
CommitStartAge ==
    /\ pc = "idle"
    /\ \E value \in StartAgeInputs :
           /\ value # settings.startAge
           /\ settings' = [settings EXCEPT !.startAge = value]
    /\ pc' = EffectsAfterCommit("startAge")
    /\ UNCHANGED settingFrame

\* onBlur of the retirementAge input: commitSettingChange('retirementAge')
CommitRetirementAge ==
    /\ pc = "idle"
    /\ \E value \in RetirementAgeInputs :
           /\ value # settings.retirementAge
           /\ settings' = [settings EXCEPT !.retirementAge = value]
    /\ pc' = EffectsAfterCommit("retirementAge")
    /\ UNCHANGED settingFrame

\* onBlur of the accountBalance input: commitSettingChange('accountBalance')
CommitAccountBalance ==
    /\ pc = "idle"
    /\ \E value \in AccountBalanceInputs :
           /\ value # settings.accountBalance
           /\ settings' = [settings EXCEPT !.accountBalance = value]
    /\ pc' = EffectsAfterCommit("accountBalance")
    /\ UNCHANGED settingFrame

\* a field that the JSON of a record does not have
Undefined == [undefined |-> TRUE]

\* the data array of an exported project with a manual override in 2024
EditedSeries ==
    <<[year |-> 2024, socialAverageWage |-> 53, userWage |-> 32, ratio |-> Rat(6, 10)],
      [year |-> 2025, socialAverageWage |-> 55, userWage |-> 55, ratio |-> One]>>

\* a data array whose record has no ratio field
SeriesWithoutRatio ==
    <<[year |-> 2024, socialAverageWage |-> 53, userWage |-> 0, ratio |-> Undefined]>>

\* the files handed to the import: the text parses as JSON or not; settings
\* is null when json.settings is falsy; data is null when json.data is not an
\* array; customWagesPresent tells whether json.settings has a customWages
\* object
ImportFiles ==
    {[parses |-> TRUE, settings |-> Some(EditorSettings), customWagesPresent |-> FALSE,
      data |-> Some(EditedSeries)],
     [parses |-> TRUE, settings |-> Some(EditorSettings), customWagesPresent |-> TRUE,
      data |-> Some(SeriesWithoutRatio)],
     [parses |-> TRUE, settings |-> Null, customWagesPresent |-> FALSE,
      data |-> Some(EditedSeries)],
     [parses |-> TRUE, settings |-> Some(EditorSettings), customWagesPresent |-> TRUE,
      data |-> Null],
     [parses |-> FALSE, settings |-> Null, customWagesPresent |-> FALSE,
      data |-> Null]}

\* json.settings && Array.isArray(json.data), after JSON.parse succeeded
Accepted(file) == file.parses /\ file.settings # Null /\ file.data # Null

\* the dependencies of the regeneration effect differ between the committed
\* settings and the imported ones: a primitive by value, customWages by
\* reference (a parsed object is a new one; undefined equals undefined)
ImportChangesStructure(file) ==
    \/ StructuralDeps(ValueOf(file.settings)) # StructuralDeps(settings)
    \/ customWagesPresent
    \/ file.customWagesPresent

\* mutant: the import does not raise the skip flag
ImportFileNoFlag(file) ==
    /\ pc = "idle"
    /\ IF Accepted(file)
       THEN /\ settings' = ValueOf(file.settings)
            /\ customWagesPresent' = file.customWagesPresent
            /\ data' = ValueOf(file.data)
            /\ aiAnalysis' = Null
            /\ activeYearIndex' = Some(Len(ValueOf(file.data)) \div 2)
            /\ pc' = IF ImportChangesStructure(file)
                     THEN "regenerateAndRecalculate"
                     ELSE "edited"
            /\ UNCHANGED <<result, aiLoading, requests, alertMessage, skipDataResetRef>>
       ELSE /\ alertMessage' = Some(IF file.parses THEN "format" ELSE "parse")
            /\ UNCHANGED <<settings, data, result, pc, activeYearIndex, aiLoading,
                           aiAnalysis, skipDataResetRef, customWagesPresent, requests>>

\* mutant: the skip flag is raised before the file is validated
ImportFileFlagFirst(file) ==
    /\ pc = "idle"
    /\ skipDataResetRef' = TRUE
    /\ IF Accepted(file)
       THEN /\ settings' = ValueOf(file.settings)
            /\ customWagesPresent' = file.customWagesPresent
            /\ data' = ValueOf(file.data)
            /\ aiAnalysis' = Null
            /\ activeYearIndex' = Some(Len(ValueOf(file.data)) \div 2)
            /\ pc' = IF ImportChangesStructure(file)
                     THEN "regenerateAndRecalculate"
                     ELSE "edited"
            /\ UNCHANGED <<result, aiLoading, requests, alertMessage>>
       ELSE /\ alertMessage' = Some(IF file.parses THEN "format" ELSE "parse")
            /\ UNCHANGED <<settings, data, result, pc, activeYearIndex, aiLoading,
                           aiAnalysis, customWagesPresent, requests>>

\* reader.onload of handleImportProject on the text of the file
ImportFile(file) ==
    /\ pc = "idle"
    /\ IF Accepted(file)
       THEN /\ skipDataResetRef' = TRUE
            /\ settings' = ValueOf(file.settings)
            /\ customWagesPresent' = file.customWagesPresent
            /\ data' = ValueOf(file.data)
            /\ aiAnalysis' = Null
            /\ activeYearIndex' = Some(Len(ValueOf(file.data)) \div 2)
            /\ pc' = IF ImportChangesStructure(file)
                     THEN "regenerateAndRecalculate"
                     ELSE "edited"
            /\ UNCHANGED <<result, aiLoading, requests, alertMessage>>
       ELSE /\ alertMessage' = Some(IF file.parses THEN "format" ELSE "parse")
            /\ UNCHANGED <<settings, data, result, pc, activeYearIndex, aiLoading,
                           aiAnalysis, skipDataResetRef, customWagesPresent, requests>>

ImportProject == \E file \in ImportFiles : ImportFile(file)

NextApp ==
    \/ RegenerationEffect
    \/ RecalculateEffect
    \/ CommitStartAge
    \/ CommitRetirementAge
    \/ CommitAccountBalance
    \/ QuickMinRatio
    \/ QuickGap
    \/ ImportProject

SpecApp == InitApp /\ [][NextApp]_vars

\* no effect is pending
Settled == pc = "idle"

\* C21: in every reachable state of the application the committed settings
\* satisfy retirementAge - startAge >= 15; a commit of startAge or
\* retirementAge that would violate this is not propagated.
C21_MinimumTenure ==
    pc \in {"idle", "edited", "regenerate", "regenerateAndRecalculate"}
        => settings.retirementAge - settings.startAge >= 15

\* C22: when a structural setting changes and the series is regenerated, the
\* ratio of every year that exists in both the old and the new series is
\* preserved in the new series.
C22_RatiosSurviveRegeneration ==
    [][(pc \in {"regenerate", "regenerateAndRecalculate"} /\ ~skipDataResetRef)
           => \A i \in DOMAIN data, j \in DOMAIN data' :
                  data[i].year = data'[j].year => data'[j].ratio = data[i].ratio]_vars

\* C23: committing a new accountBalance does not regenerate or alter any
\* record of data; only the recalculation effect is pending afterwards, and
\* it changes the result alone.
C23_BalanceCommitKeepsSeries ==
    [][/\ CommitAccountBalance => data' = data /\ pc' = "edited"
       /\ pc = "edited" => /\ data' = data
                           /\ settings' = settings
                           /\ result' = calculatePension(data, settings)]_vars

C23_Witness ==
    /\ Settled
    /\ settings.accountBalance = FromInt(50000)
    /\ \E i \in DOMAIN data : data[i].ratio = Rat(6, 10) /\ data[i].userWage > 0
    /\ Len(data) = 35
    /\ result.totalAccumulated > 50000

\* C24: once all pending effects have run, the displayed result equals
\* calculatePension(current data, current settings), after any sequence of
\* setting commits, data edits and imports.
C24_ResultFresh == Settled => result = calculatePension(data, settings)

C24_Witness ==
    /\ Settled
    /\ settings.accountBalance = FromInt(50000)
    /\ settings.retirementAge = 55
    /\ result.monthsDivisor = 170
    /\ result.totalAccumulated > 50000
    /\ \E i \in DOMAIN data : data[i].userWage = 0

\* the regeneration effect is pending
RegenerationPending == pc \in {"regenerate", "regenerateAndRecalculate"}

\* the effects that are pending leave data and settings alone: a pending
\* regeneration will be skipped
EffectsKeepSeries == RegenerationPending => skipDataResetRef

\* C25: after handleImportProject loads a file with a settings object and a
\* data array, data equals the file's data array and settings the file's
\* settings, and the effects that run until they have settled (the
\* regeneration effect triggered by the import included) change neither.
C25_ImportKeepsRecords ==
    [][/\ \A file \in ImportFiles :
              (Accepted(file) /\ ImportFile(file))
                  => /\ data' = ValueOf(file.data)
                     /\ settings' = ValueOf(file.settings)
                     /\ pc' # "idle"
                     /\ EffectsKeepSeries'
       /\ (pc # "idle" /\ EffectsKeepSeries)
              => /\ data' = data
                 /\ settings' = settings
                 /\ EffectsKeepSeries']_vars

C25_Witness ==
    /\ Settled
    /\ data = EditedSeries
    /\ settings = EditorSettings
    /\ ~customWagesPresent
    /\ ~skipDataResetRef
    /\ result.contributionYears = 2

\* C26: in every state where the effects have settled skipDataResetRef is
\* false, so the first structural change after any import regenerates the
\* series.
C26_SkipFlagConsumed == Settled => ~skipDataResetRef

\* C27: when the imported file is not valid JSON, or lacks a settings field,
\* or its data field is not an array, handleImportProject leaves settings,
\* data, activeYearIndex, result and the skip flag unchanged and reports an
\* alert.
C27_RejectedImportChangesNothing ==
    [][\A file \in ImportFiles :
           (~Accepted(file) /\ ImportFile(file))
               => /\ UNCHANGED <<settings, data, activeYearIndex, result,
                                 skipDataResetRef>>
                  /\ alertMessage' # Null]_vars

C27_Witness ==
    /\ Settled
    /\ alertMessage = Some("parse")
    /\ Len(data) = 35
    /\ \E i \in DOMAIN data : data[i].ratio = MIN_RATIO
    /\ ~skipDataResetRef

----------------------------------------------------------------------------
(* The AI analysis: handleAnalyze and analyzePensionPlan                   *)

\* the records analyzePensionPlan puts in the prompt, as indices counting
\* from 1: filter((_, idx) => idx === 0 || idx === data.length - 1 || idx % 5 === 0)
SampledIndices(series) ==
    {i \in DOMAIN series : i - 1 = 0 \/ i - 1 = Len(series) - 1 \/ (i - 1) % 5 = 0}

\* building the prompt throws: d.ratio.toFixed(2) on a record without ratio
\* (the statement stands before the try block, so the promise rejects)
PromptThrows(series) ==
    \E i \in SampledIndices(series) : series[i].ratio = Undefined

\* what the service call of analyzePensionPlan returns: the generated text,
\* or the message of the catch block
AnalysisOutcomes == {"report", "unavailable"}

\* an analysis button is rendered and enabled: the first one when there is
\* no analysis and none is loading, the one below a shown analysis always
CanAnalyze == (aiAnalysis = Null /\ ~aiLoading) \/ aiAnalysis # Null

\* handleAnalyze up to its await: setAiLoading(true) and the call
\* analyzePensionPlan(data, result, settings)
HandleAnalyze ==
    /\ pc = "idle"
    /\ CanAnalyze
    /\ Len(requests) < MaxRequests
    /\ aiLoading' = TRUE
    /\ requests' = Append(requests, [data |-> data, result |-> result,
                                     settings |-> settings])
    /\ UNCHANGED <<settings, data, result, pc, activeYearIndex, aiAnalysis,
                   skipDataResetRef, customWagesPresent, alertMessage>>

\* the requests without the i-th
WithoutRequest(i) ==
    SubSeq(requests, 1, i - 1) \o SubSeq(requests, i + 1, Len(requests))

\* the promise of one call settles.  Fulfilled: handleAnalyze goes on with
\* setAiAnalysis(analysis); setAiLoading(false).  Rejected: the await throws
\* and the rest of handleAnalyze does not run.
AnalysisSettles ==
    /\ \E i \in DOMAIN requests :
           /\ requests' = WithoutRequest(i)
           /\ IF PromptThrows(requests[i].data)
              THEN UNCHANGED <<aiAnalysis, aiLoading>>
              ELSE /\ \E outcome \in AnalysisOutcomes :
                          aiAnalysis' = Some([text |-> outcome,
                                              data |-> requests[i].data])
                   /\ aiLoading' = FALSE
    /\ UNCHANGED <<settings, data, result, pc, activeYearIndex,
                   skipDataResetRef, customWagesPresent, alertMessage>>

NextAnalysis ==
    \/ RegenerationEffect
    \/ RecalculateEffect
    \/ QuickGap
    \/ ImportProject
    \/ HandleAnalyze
    \/ AnalysisSettles

SpecAnalysis == InitApp /\ [][NextAnalysis]_vars

\* every call to the service settles: its promise is fulfilled or rejected
SpecAnalysisFair == SpecAnalysis /\ WF_vars(AnalysisSettles)

\* C28: in every reachable state a non-null aiAnalysis was produced from the
\* data currently held.
C28_AnalysisOfCurrentData ==
    aiAnalysis # Null => ValueOf(aiAnalysis).data = data

\* C29: for any data the App can hold, aiLoading eventually returns to false
\* after being set to true.
C29_LoadingEnds == aiLoading ~> ~aiLoading

----------------------------------------------------------------------------
(* Rounding of the total                                                   *)

\* the personal pension before output rounding, from the inputs
StatutoryPersonalPension(series, s) ==
    RatDivInt(RatAdd(s.accountBalance, ContributionSum(series)),
              TableDivisor(s.retirementAge))

\* C30: for every call of calculatePension, totalMonthly is
\* round(unrounded basic pension + unrounded personal pension) and differs
\* from monthlyBasicPension + monthlyPersonalPension by at most 1.
C30_TotalWithinOneOfParts ==
    Calculated
        => /\ data # <<>>
                 => IsNearestInt(result.totalMonthly,
                                 RatAdd(StatutoryBasicPension(data),
                                        StatutoryPersonalPension(data, settings)))
           /\ Abs(result.totalMonthly
                  - (result.monthlyBasicPension + result.monthlyPersonalPension)) <= 1

\* the total is not the sum of the displayed parts
C30_Witness ==
    /\ CalculatedNonEmpty
    /\ result.monthlyBasicPension > 0
    /\ result.monthlyPersonalPension > 0
    /\ result.totalMonthly # result.monthlyBasicPension + result.monthlyPersonalPension

============================================================================
